---- MODULE Spec2Model ----
(***************************************************************************)
(* Model of the Arista and Endace drivers of netmiko:                      *)
(*   src/netmiko/arista/arista.py      (AristaBase, AristaSSH,             *)
(*                                      AristaTelnet, AristaFileTransfer)  *)
(*   src/netmiko/endace/endace_ssh.py  (EndaceSSH)                         *)
(* A session drives one device over a text channel.  Text is modelled as   *)
(* TLA+ strings, character by character: Len, \o and SubSeq work on them.  *)
(* The channel primitives and the base-class methods the drivers call      *)
(* (write_channel, read_until_pattern, send_command_timing and the base    *)
(* check/config/exit methods) are not part of these two files; they are    *)
(* modelled from the written specification, together with the device.      *)
(***************************************************************************)
EXTENDS Integers, Sequences, FiniteSets, TLC

VARIABLES
    cls,          \* class of the session: "AristaSSH", "AristaTelnet" or "EndaceSSH"
    default_enter,\* the default_enter keyword the session was constructed with
    RETURN,       \* the session's line terminator (self.RETURN)
    base_prompt,  \* self.base_prompt, found once at session preparation
    devMode,      \* the device's true mode: "User", "Enabled" or "Config"
    shown,        \* the prompt text the device emits now (with its markers)
    unused,       \* the supervisor markers the device has not yet put in its prompt
    call,         \* the most recent driver call: arguments, channel traffic, result
    prev,         \* operation and outcome of the call before it
    job,          \* the transfer job of the session, if it has one
    remote        \* the device's file system: free space and files

vars == <<cls, default_enter, RETURN, base_prompt, devMode, shown, unused,
          call, prev, job, remote>>

\* what no call on the session changes
fixed == <<cls, default_enter, RETURN, base_prompt>>

-----------------------------------------------------------------------------
(* Python string primitives *)

Min(a, b) == IF a < b THEN a ELSE b

\* t occurs in s at position i (1-based)
OccursAt(s, t, i) ==
    /\ i >= 1
    /\ i + Len(t) - 1 <= Len(s)
    /\ SubSeq(s, i, i + Len(t) - 1) = t

\* Python: t in s
Contains(s, t) == \E i \in 1..(Len(s) - Len(t) + 1) : OccursAt(s, t, i)

\* Python: s[i:].replace(old, ""), one left-to-right pass over the
\* non-overlapping occurrences of old; what the removal leaves is not rescanned
RECURSIVE ReplaceFrom(_, _, _)
ReplaceFrom(s, old, i) ==
    IF i > Len(s) THEN ""
    ELSE IF OccursAt(s, old, i) THEN ReplaceFrom(s, old, i + Len(old))
    ELSE SubSeq(s, i, i) \o ReplaceFrom(s, old, i + 1)

\* Python: s.replace(old, "")
Replace(s, old) == ReplaceFrom(s, old, 1)

\* Python: s[:n]
Prefix(s, n) == SubSeq(s, 1, Min(n, Len(s)))

\* s with t inserted so that t starts at position i
InsertAt(s, t, i) == SubSeq(s, 1, i - 1) \o t \o SubSeq(s, i, Len(s))

-----------------------------------------------------------------------------
(* Program constants *)

\* re.DOTALL, the flag config_mode substitutes for "no flags"
DOTALL == 16
\* re.IGNORECASE, a flag a caller may pass
IGNORECASE == 2
\* base_prompt[:16]
PromptPrefixLen == 16

\* the classes that inherit AristaBase
AristaClasses == {"AristaSSH", "AristaTelnet"}

\* the supervisor markers check_config_mode removes
MARKER_S1 == "(s1)"
MARKER_S2 == "(s2)"
Markers == {MARKER_S1, MARKER_S2}

-----------------------------------------------------------------------------
(* The device and the channel, as the specification describes them *)

\* prompt grammar of an Arista device: host, then the mode part
AristaPrompt(host, mode) ==
    host \o (CASE mode = "User" -> ">"
               [] mode = "Enabled" -> "#"
               [] mode = "Config" -> "(config)#")

\* prompt grammar of an Endace device
EndacePrompt(host, mode) ==
    host \o (CASE mode = "User" -> " > "
               [] mode = "Enabled" -> " # "
               [] mode = "Config" -> " (config) # ")

DevicePrompt(c, host, mode) ==
    IF c = "EndaceSSH" THEN EndacePrompt(host, mode) ELSE AristaPrompt(host, mode)

\* what the device sends back for a bare line terminator: a new line and
\* its prompt
PromptEcho(prompt) == "\n" \o prompt

\* normalize_cmd: a command goes out with the line terminator after it
NormalizeCmd(cmd, ret) == cmd \o ret

\* the characters a one-character pattern accepts: r"[>\#]", r"\#", "#"
ClassOf(pattern) ==
    {SubSeq(pattern, i, i) : i \in 1..Len(pattern)} \ {"[", "]", "\\"}

\* end of the first match of a one-character pattern in buf, 0 if none
MatchEnd(buf, pattern) ==
    LET hits == {i \in 1..Len(buf) : SubSeq(buf, i, i) \in ClassOf(pattern)}
    IN  IF hits = {} THEN 0 ELSE CHOOSE i \in hits : \A j \in hits : i <= j

\* read_until_pattern: the text up to the end of the first match; with an
\* empty pattern the base class reads whatever the device sent
ReadUntilPattern(buf, pattern) ==
    IF pattern = "" THEN buf ELSE SubSeq(buf, 1, MatchEnd(buf, pattern))

PatternSeen(buf, pattern) == pattern = "" \/ MatchEnd(buf, pattern) > 0

\* the characters re.escape puts a backslash before
SpecialChars ==
    {"(", ")", "[", "]", "{", "}", "?", "*", "+", "-", "|", "^", "$", "\\",
     ".", "&", "~", "#", " ", "\t", "\n", "\r"}

\* re.escape(s)
RECURSIVE ReEscape(_)
ReEscape(s) ==
    IF s = "" THEN ""
    ELSE (IF Head(s) \in SpecialChars THEN "\\" \o Head(s) ELSE Head(s))
         \o ReEscape(Tail(s))

\* the literal text an escaped pattern stands for, from position i on
RECURSIVE Unescape(_, _)
Unescape(p, i) ==
    IF i > Len(p) THEN ""
    ELSE IF SubSeq(p, i, i) = "\\" /\ i < Len(p)
         THEN SubSeq(p, i + 1, i + 1) \o Unescape(p, i + 2)
         ELSE SubSeq(p, i, i) \o Unescape(p, i + 1)

\* position of the first ".*" of a pattern that is not escaped, 0 if none
RECURSIVE FindWild(_, _)
FindWild(p, i) ==
    IF i >= Len(p) THEN 0
    ELSE IF SubSeq(p, i, i) = "\\" THEN FindWild(p, i + 2)
    ELSE IF OccursAt(p, ".*", i) THEN i
    ELSE FindWild(p, i + 1)

HasFlag(flags, f) == (flags \div f) % 2 = 1

\* re.search(pattern, text, flags) for the patterns these drivers wait for:
\* literal text, or literal text, ".*", literal text; "." crosses a line
\* boundary only under DOTALL
RegexSearch(text, p, flags) ==
    LET w == FindWild(p, 1)
    IN  IF w = 0 THEN Contains(text, Unescape(p, 1))
        ELSE LET a == Unescape(SubSeq(p, 1, w - 1), 1)
                 b == Unescape(SubSeq(p, w + 2, Len(p)), 1)
                 as == {i \in 1..(Len(text) + 1) : OccursAt(text, a, i)}
                 bs == {j \in 1..(Len(text) + 1) : OccursAt(text, b, j)}
             IN  \E i \in as : \E j \in bs :
                    /\ j >= i + Len(a)
                    /\ \/ HasFlag(flags, DOTALL)
                       \/ ~Contains(SubSeq(text, i + Len(a), j - 1), "\n")

\* what an Arista device does with a configuration command: it enters (or
\* stays in) configuration mode from privileged mode, and refuses in user mode
AristaModeAfterConfig(mode) == IF mode = "User" THEN "User" ELSE "Config"

AristaConfigReply(host, mode, command) ==
    IF mode = "User"
    THEN command \o "\n% Invalid input\n" \o AristaPrompt(host, "User")
    ELSE command \o "\n" \o AristaPrompt(host, "Config")

-----------------------------------------------------------------------------
(* The construction of a session *)

\* a keyword argument: left out, given as None, or given a value
NoKeyword == [given |-> FALSE, none |-> FALSE, value |-> ""]
NoneKeyword == [given |-> TRUE, none |-> TRUE, value |-> ""]
Keyword(v) == [given |-> TRUE, none |-> FALSE, value |-> v]

\* kwargs.get("default_enter") is None
IsNone(kw) == ~kw.given \/ kw.none

\* the base constructor: self.RETURN is "\n" when default_enter is None and
\* the caller's default_enter otherwise
BaseReturn(kw) == IF IsNone(kw) THEN "\n" ELSE kw.value

\* AristaTelnet.__init__: kwargs["default_enter"] is "\r\n" when the caller's
\* is None and the caller's otherwise
AristaTelnetDefaultEnter(kw) == IF IsNone(kw) THEN "\r\n" ELSE kw.value

\* super().__init__(*args, **kwargs) with that keyword
AristaTelnetReturn(kw) == BaseReturn(Keyword(AristaTelnetDefaultEnter(kw)))

\* a session without a transfer job, a device whose files play no part
NoJob == [exists |-> FALSE]
NoRemote == [free |-> 0]

-----------------------------------------------------------------------------
(* The record of a call *)

NoCall ==
    [op |-> "none", check_string |-> "", command |-> "", pattern |-> "",
     re_flags |-> 0, preMode |-> "", sent |-> <<>>, read |-> "", reply |-> "",
     waitPattern |-> "", waitFlags |-> 0, read_timeout |-> 0,
     remote_file |-> <<>>, steps |-> <<>>, value |-> <<>>,
     outcome |-> "none", ok |-> FALSE, output |-> "", error |-> ""]

Summary(c) == [op |-> c.op, outcome |-> c.outcome]

-----------------------------------------------------------------------------
(* AristaBase.check_config_mode *)

\* a plausible slip: the second replacement forgotten
AristaStripOnlyS1(output) == Replace(output, MARKER_S1)

\* output.replace("(s1)", "").replace("(s2)", "")
AristaStrip(output) == Replace(Replace(output, MARKER_S1), MARKER_S2)

\* a plausible slip: the test made on the text as read, before the markers
\* are removed
AristaCheckResultUnstripped(output, check_string) == Contains(output, check_string)

\* check_string in output, after the two replacements
AristaCheckResult(output, check_string) ==
    Contains(AristaStrip(output), check_string)

\* a plausible slip: the line ending written out in the method
AristaCheckWritesLinefeed(ret) == <<"\n">>

\* self.write_channel(self.RETURN)
AristaCheckWrites(ret) == <<ret>>

AristaCheckConfigMode(check_string, pattern) ==
    /\ cls \in AristaClasses
    /\ LET buf == PromptEcho(shown)
           rec == [NoCall EXCEPT !.op = "check_config_mode",
                                 !.check_string = check_string,
                                 !.pattern = pattern,
                                 !.preMode = devMode,
                                 !.sent = AristaCheckWrites(RETURN)]
       IN  IF PatternSeen(buf, pattern)
           THEN LET output == ReadUntilPattern(buf, pattern)
                IN  call' = [rec EXCEPT !.read = output,
                                        !.outcome = "returned",
                                        !.ok = AristaCheckResult(output, check_string)]
           ELSE call' = [rec EXCEPT !.outcome = "raised",
                                    !.error = "ReadTimeout"]
    /\ prev' = Summary(call)
    /\ UNCHANGED <<fixed, job, remote, devMode, shown, unused>>

-----------------------------------------------------------------------------
(* The Arista device redraws its prompt *)

\* a supervisor marker appears somewhere after the host name; each of the
\* two markers is put into the prompt at most once in a session
Decorate(m, i) ==
    /\ cls \in AristaClasses
    /\ m \in unused
    /\ i \in (Len(base_prompt) + 1)..(Len(shown) + 1)
    /\ shown' = InsertAt(shown, m, i)
    /\ unused' = unused \ {m}
    /\ UNCHANGED <<fixed, job, remote, devMode, call, prev>>

\* the markers disappear
Undecorate ==
    /\ cls \in AristaClasses
    /\ shown # AristaPrompt(base_prompt, devMode)
    /\ shown' = AristaPrompt(base_prompt, devMode)
    /\ UNCHANGED <<fixed, job, remote, devMode, unused, call, prev>>

-----------------------------------------------------------------------------
(* AristaBase.config_mode *)

\* a plausible slip: the whole base_prompt, not its first 16 characters
AristaConfigPatternWholePrompt(bp, pattern) ==
    IF pattern = "" THEN ReEscape(bp) \o ".*" \o ReEscape(")#") ELSE pattern

\* pattern = re.escape(self.base_prompt[:16]); pattern = f"{pattern}.*{check_string}"
AristaConfigPattern(bp, pattern) ==
    IF pattern = ""
    THEN ReEscape(Prefix(bp, PromptPrefixLen)) \o ".*" \o ReEscape(")#")
    ELSE pattern

\* if not re_flags: re_flags = re.DOTALL
AristaConfigFlags(re_flags) == IF re_flags = 0 THEN DOTALL ELSE re_flags

\* super().config_mode(config_command, pattern, re_flags): writes the
\* command, reads until the pattern, fails if it is never seen
BaseConfigMode(rec, host, mode, ret) ==
    LET reply == AristaConfigReply(host, mode, rec.command)
        seen == RegexSearch(reply, rec.waitPattern, rec.waitFlags)
    IN  [rec EXCEPT !.sent = <<NormalizeCmd(rec.command, ret)>>,
                    !.reply = reply,
                    !.read = IF seen THEN reply ELSE "",
                    !.output = IF seen THEN reply ELSE "",
                    !.outcome = IF seen THEN "returned" ELSE "raised",
                    !.error = IF seen THEN "" ELSE "ConfigModeError"]

AristaConfigMode(config_command, pattern, re_flags) ==
    /\ cls \in AristaClasses
    /\ LET rec == [NoCall EXCEPT !.op = "config_mode",
                                 !.command = config_command,
                                 !.pattern = pattern,
                                 !.re_flags = re_flags,
                                 !.preMode = devMode,
                                 !.waitPattern = AristaConfigPattern(base_prompt, pattern),
                                 !.waitFlags = AristaConfigFlags(re_flags)]
       IN  call' = BaseConfigMode(rec, base_prompt, devMode, RETURN)
    /\ devMode' = AristaModeAfterConfig(devMode)
    /\ shown' = AristaPrompt(base_prompt, devMode')
    /\ prev' = Summary(call)
    /\ UNCHANGED <<fixed, job, remote, unused>>

-----------------------------------------------------------------------------
(* The Endace device, as the specification describes it *)

\* what the device may do with a configuration command: enter configuration
\* mode, ask for a confirmation first, or refuse
ConfigReactions == {"enter", "warn", "refuse"}
\* what it may do with the confirmation
ConfirmReactions == {"enter", "refuse"}

\* only a privileged session can be let in as it is
EndaceReaction(mode, r) ==
    IF mode = "Enabled" THEN r ELSE IF mode = "Config" THEN "enter" ELSE "refuse"

EndaceModeAfterCommand(mode, reaction) ==
    IF reaction = "enter" THEN "Config" ELSE mode

\* the text that comes back for the configuration command: its echo, then
\* the new prompt, the warning or the refusal
EndaceCommandReply(host, mode, command, reaction) ==
    command \o "\n" \o
    (CASE reaction = "enter" -> EndacePrompt(host, "Config")
       [] reaction = "warn" ->
            "Configuration is locked. Type YES to enter configuration mode anyway: "
       [] OTHER -> "% Refused\n" \o EndacePrompt(host, mode))

\* the device is waiting for a confirmation exactly after a warning
EndaceModeAfterConfirm(mode, pending, y) ==
    IF pending /\ y = "enter" THEN "Config" ELSE mode

EndaceConfirmReply(host, mode, token, pending, y) ==
    token \o "\n" \o
    (IF ~pending THEN "% Unrecognized command\n" \o EndacePrompt(host, mode)
     ELSE IF y = "enter" THEN EndacePrompt(host, "Config")
     ELSE "% Refused\n" \o EndacePrompt(host, mode))

\* what "exit" does: it leaves configuration mode, and from privileged mode
\* it gives the privileges up; any other line changes nothing
EndaceModeAfterExit(mode, command) ==
    IF command # "exit" THEN mode
    ELSE IF mode = "Config" THEN "Enabled" ELSE "User"

EndaceExitReply(host, mode, command) ==
    command \o "\n" \o EndacePrompt(host, EndaceModeAfterExit(mode, command))

-----------------------------------------------------------------------------
(* EndaceSSH.check_config_mode *)

\* check_string: str = "(config) #", pattern: str = ""
EndaceCheckArgs == [check_string |-> "(config) #", pattern |-> ""]

\* super().check_config_mode: a line terminator is written, the device's
\* answer is read, and check_string is looked for in it
BaseCheckConfigMode(prompt, check_string, pattern) ==
    Contains(ReadUntilPattern(PromptEcho(prompt), pattern), check_string)

EndaceInConfigMode(host, mode) ==
    BaseCheckConfigMode(EndacePrompt(host, mode),
                        EndaceCheckArgs.check_string, EndaceCheckArgs.pattern)

EndaceCheckConfigMode ==
    /\ cls = "EndaceSSH"
    /\ call' = [NoCall EXCEPT !.op = "check_config_mode",
                              !.check_string = EndaceCheckArgs.check_string,
                              !.pattern = EndaceCheckArgs.pattern,
                              !.preMode = devMode,
                              !.sent = <<RETURN>>,
                              !.read = ReadUntilPattern(PromptEcho(shown),
                                                        EndaceCheckArgs.pattern),
                              !.outcome = "returned",
                              !.ok = EndaceInConfigMode(base_prompt, devMode)]
    /\ prev' = Summary(call)
    /\ UNCHANGED <<fixed, job, remote, devMode, shown, unused>>

-----------------------------------------------------------------------------
(* EndaceSSH.config_mode *)

\* a plausible slip: the command is sent without looking at the mode first
EndaceMustEnterAlways(inConfig) == TRUE

\* if not self.check_config_mode():
EndaceMustEnter(inConfig) == ~inConfig

\* a plausible slip: the confirmation is sent whatever came back
EndaceNeedsConfirmAlways(output) == TRUE

\* if "to enter configuration mode anyway" in output:
EndaceNeedsConfirm(output) == Contains(output, "to enter configuration mode anyway")

\* a plausible slip: the second check's answer is not acted on
EndaceConfigFailsNever(inConfig) == FALSE

\* if not self.check_config_mode(): raise ...
EndaceConfigFails(inConfig) == ~inConfig

\* raise ValueError("Failed to enter configuration mode")
EndaceConfigError == "Failed to enter configuration mode"

\* a step of a call that is itself a call, and how it ended
Step(op, ok) == [op |-> op, ok |-> ok]

\* the whole of config_mode against a device that reacts with r to the
\* command and with y to the confirmation: the record of the call and the
\* mode the device is left in
EndaceConfigRun(rec, host, mode, ret, r, y) ==
    IF ~EndaceMustEnter(EndaceInConfigMode(host, mode))
    THEN [rec |-> [rec EXCEPT !.sent = <<ret>>,
                              !.steps = <<Step("check_config_mode", TRUE)>>,
                              !.ok = TRUE,
                              !.outcome = "returned",
                              !.output = ""],
          mode |-> mode]
    ELSE
      LET reaction == EndaceReaction(mode, r)
          mode1 == EndaceModeAfterCommand(mode, reaction)
          reply1 == EndaceCommandReply(host, mode, rec.command, reaction)
          output1 == "" \o reply1
          confirm == EndaceNeedsConfirm(output1)
          pending == reaction = "warn"
          mode2 == IF confirm THEN EndaceModeAfterConfirm(mode1, pending, y) ELSE mode1
          output2 == IF confirm
                     THEN output1 \o EndaceConfirmReply(host, mode1, "YES", pending, y)
                     ELSE output1
          sent == <<ret, NormalizeCmd(rec.command, ret)>>
                  \o (IF confirm THEN <<NormalizeCmd("YES", ret)>> ELSE <<>>)
                  \o <<ret>>
          entered == EndaceInConfigMode(host, mode2)
          fails == EndaceConfigFails(entered)
      IN  [rec |-> [rec EXCEPT !.sent = sent,
                               !.steps = <<Step("check_config_mode", FALSE),
                                           Step("check_config_mode", entered)>>,
                               !.reply = reply1,
                               !.read = output2,
                               !.ok = entered,
                               !.outcome = IF fails THEN "raised" ELSE "returned",
                               !.output = IF fails THEN "" ELSE output2,
                               !.error = IF fails THEN EndaceConfigError ELSE ""],
           mode |-> mode2]

EndaceConfigMode(config_command, r, y) ==
    /\ cls = "EndaceSSH"
    /\ LET rec == [NoCall EXCEPT !.op = "config_mode",
                                 !.command = config_command,
                                 !.preMode = devMode]
           run == EndaceConfigRun(rec, base_prompt, devMode, RETURN, r, y)
       IN  /\ call' = run.rec
           /\ devMode' = run.mode
    /\ shown' = EndacePrompt(base_prompt, devMode')
    /\ prev' = Summary(call)
    /\ UNCHANGED <<fixed, job, remote, unused>>

-----------------------------------------------------------------------------
(* EndaceSSH.exit_config_mode *)

\* a plausible slip: the exit command left out of the call
EndaceExitArgsNoCommand == [exit_config |-> "", pattern |-> "#"]

\* exit_config: str = "exit", pattern: str = "#"
EndaceExitArgs == [exit_config |-> "exit", pattern |-> "#"]

\* super().exit_config_mode(exit_config, pattern): writes the command and
\* waits for the pattern
BaseExitConfigMode(rec, host, mode, ret) ==
    LET reply == EndaceExitReply(host, mode, rec.command)
        seen == PatternSeen(reply, rec.waitPattern)
        got == ReadUntilPattern(reply, rec.waitPattern)
    IN  [rec EXCEPT !.sent = <<NormalizeCmd(rec.command, ret)>>,
                    !.reply = reply,
                    !.read = IF seen THEN got ELSE "",
                    !.output = IF seen THEN got ELSE "",
                    !.outcome = IF seen THEN "returned" ELSE "raised",
                    !.error = IF seen THEN "" ELSE "ReadTimeout"]

EndaceExitConfigMode ==
    /\ cls = "EndaceSSH"
    /\ LET rec == [NoCall EXCEPT !.op = "exit_config_mode",
                                 !.command = EndaceExitArgs.exit_config,
                                 !.pattern = EndaceExitArgs.pattern,
                                 !.waitPattern = EndaceExitArgs.pattern,
                                 !.preMode = devMode]
       IN  call' = BaseExitConfigMode(rec, base_prompt, devMode, RETURN)
    /\ devMode' = EndaceModeAfterExit(devMode, EndaceExitArgs.exit_config)
    /\ shown' = EndacePrompt(base_prompt, devMode')
    /\ prev' = Summary(call)
    /\ UNCHANGED <<fixed, job, remote, unused>>

-----------------------------------------------------------------------------
(* EndaceSSH.enable *)

\* what the device may do with "enable" in user mode: grant it, ask for the
\* secret, or stay silent
EnableReactions == {"grant", "ask", "silent"}
EndaceEnableReaction(mode, e) == IF mode = "User" THEN e ELSE "grant"
EndaceModeAfterEnable(mode, reaction, hasSecret) ==
    IF mode # "User" THEN mode
    ELSE IF reaction = "grant" \/ (reaction = "ask" /\ hasSecret) THEN "Enabled"
    ELSE mode

\* the secret the session holds, when it holds one
Secret == "s3cret"

\* cmd: str = "enable", pattern: str = "", re_flags: int = re.IGNORECASE
EndaceEnableArgs == [cmd |-> "enable", pattern |-> "", re_flags |-> IGNORECASE]

\* super().enable: writes the command, waits for the credential prompt or
\* the privileged prompt, supplies the secret when asked for it
BaseEnable(rec, host, mode, ret, e, hasSecret) ==
    LET reaction == EndaceEnableReaction(mode, e)
        mode1 == EndaceModeAfterEnable(mode, reaction, hasSecret)
        cmd == NormalizeCmd(rec.command, ret)
        ok == reaction = "grant" \/ (reaction = "ask" /\ hasSecret)
    IN  [rec |-> [rec EXCEPT
            !.sent = IF reaction = "ask" /\ hasSecret
                     THEN <<cmd, NormalizeCmd(Secret, ret)>> ELSE <<cmd>>,
            !.reply = CASE reaction = "grant" -> EndacePrompt(host, mode1)
                        [] reaction = "ask" -> "Password: "
                        [] OTHER -> "",
            !.ok = ok,
            !.outcome = IF ok THEN "returned" ELSE "raised",
            !.output = IF ok THEN EndacePrompt(host, mode1) ELSE "",
            !.error = IF ok THEN ""
                      ELSE IF reaction = "ask" THEN "AuthError"
                      ELSE "TimeoutError"],
         mode |-> mode1]

EndaceEnable(e, hasSecret) ==
    /\ cls = "EndaceSSH"
    /\ LET rec == [NoCall EXCEPT !.op = "enable",
                                 !.command = EndaceEnableArgs.cmd,
                                 !.pattern = EndaceEnableArgs.pattern,
                                 !.re_flags = EndaceEnableArgs.re_flags,
                                 !.preMode = devMode]
           run == BaseEnable(rec, base_prompt, devMode, RETURN, e, hasSecret)
       IN  /\ call' = run.rec
           /\ devMode' = run.mode
    /\ shown' = EndacePrompt(base_prompt, devMode')
    /\ prev' = Summary(call)
    /\ UNCHANGED <<fixed, job, remote, unused>>

-----------------------------------------------------------------------------
(* EndaceSSH.save_config *)

\* cmd: str = "configuration write", confirm: bool = False,
\* confirm_response: str = ""
EndaceSaveArgs ==
    [cmd |-> "configuration write", confirm |-> FALSE, confirm_response |-> ""]

\* config_command: str = "conf t"
EndaceConfigCommand == "conf t"

\* a plausible slip: the save goes on after a failed step
EndaceSaveProceedsAnyway(enabled, configured) == TRUE

\* self.enable(); self.config_mode(); return super().save_config(...):
\* an exception of either call ends save_config
EndaceSaveProceeds(enabled, configured) == enabled /\ configured

\* super().save_config: writes the command, and the response to the
\* device's question when the caller asked for a confirmation
BaseSaveConfig(cmd, confirm, confirm_response, ret) ==
    IF confirm
    THEN <<NormalizeCmd(cmd, ret), NormalizeCmd(confirm_response, ret)>>
    ELSE <<NormalizeCmd(cmd, ret)>>

\* the whole of save_config against a device that reacts with e to
\* "enable", with r to the configuration command and with y to the
\* confirmation
EndaceSaveRun(rec, host, mode, ret, e, hasSecret, r, y) ==
    LET en == BaseEnable([NoCall EXCEPT !.op = "enable",
                                        !.command = EndaceEnableArgs.cmd],
                         host, mode, ret, e, hasSecret)
        enabled == en.rec.outcome = "returned"
        cf == EndaceConfigRun([NoCall EXCEPT !.op = "config_mode",
                                             !.command = EndaceConfigCommand],
                              host, en.mode, ret, r, y)
        configured == enabled /\ cf.rec.outcome = "returned"
        saves == EndaceSaveProceeds(enabled, configured)
        save == BaseSaveConfig(rec.command, rec.confirm,
                               rec.confirm_response, ret)
    IN  [rec |-> [rec EXCEPT
            !.steps = <<Step("enable", enabled)>>
                      \o (IF enabled THEN <<Step("config_mode", configured)>>
                          ELSE <<>>)
                      \o (IF saves THEN <<Step("save_config", TRUE)>> ELSE <<>>),
            !.sent = en.rec.sent
                     \o (IF enabled THEN cf.rec.sent ELSE <<>>)
                     \o (IF saves THEN save ELSE <<>>),
            !.ok = enabled /\ configured,
            !.outcome = IF enabled /\ configured THEN "returned" ELSE "raised",
            !.error = IF ~enabled THEN en.rec.error
                      ELSE IF ~configured THEN cf.rec.error ELSE ""],
         mode |-> IF enabled THEN cf.mode ELSE en.mode]

EndaceSaveConfig(cmd, confirm, confirm_response, e, hasSecret, r, y) ==
    /\ cls = "EndaceSSH"
    /\ LET rec == [op |-> "save_config", command |-> cmd, confirm |-> confirm,
                   confirm_response |-> confirm_response, preMode |-> devMode]
                  @@ NoCall
           run == EndaceSaveRun(rec, base_prompt, devMode, RETURN,
                                e, hasSecret, r, y)
       IN  /\ call' = run.rec
           /\ devMode' = run.mode
    /\ shown' = EndacePrompt(base_prompt, devMode')
    /\ prev' = Summary(call)
    /\ UNCHANGED <<fixed, job, remote, unused>>

-----------------------------------------------------------------------------
(* The device's file system and the byte copy, as the specification        *)
(* describes them                                                           *)

\* sizes of files and of the free space are counted in bytes up to these
MaxSize == 2
MaxFree == 2

\* the digests a file can have
LocalDigest == "9e107d9d"
OtherDigest == "e4d909c2"

\* a file the device does not have, and one left there by an earlier transfer
Absent == [present |-> FALSE, size |-> 0, md5 |-> ""]
StaleFile == [present |-> TRUE, size |-> 1, md5 |-> OtherDigest]

\* the path of a file on the device
RemotePath(file_system, name) == file_system \o "/" \o name

\* the file-system usage report: device, size, used, available, mount point
DeviceUsageReply(rem, file_system) ==
    <<"/dev/sda1", MaxFree + MaxSize, (MaxFree + MaxSize) - rem.free,
      rem.free, file_system>>

\* the listing of one file: mode, links, owner, group, size, name; or a
\* single line that says there is no such file
DeviceListingReply(rem, file_system, name) ==
    IF name \in DOMAIN rem.files /\ rem.files[name].present
    THEN <<"-rwxrwx---", 1, "root", "eosadmin", rem.files[name].size,
           RemotePath(file_system, name)>>
    ELSE <<"No such file or directory">>

\* the files whose path a command names after "file:"
Addressed(rem, file_system, cmd) ==
    {n \in DOMAIN rem.files :
        LET t == " file:" \o RemotePath(file_system, n)
        IN  /\ Len(cmd) >= Len(t)
            /\ SubSeq(cmd, Len(cmd) - Len(t) + 1, Len(cmd)) = t}

\* the device's answer to a checksum command: a verbose line that ends with
\* the digest of the file addressed, or an error line
DeviceMd5Reply(rem, file_system, cmd) ==
    LET fs == {n \in Addressed(rem, file_system, cmd) : rem.files[n].present}
    IN  IF fs = {}
        THEN "% Error opening file (No such file or directory)"
        ELSE LET n == CHOOSE f \in fs : TRUE
             IN  "verify /md5 (" \o "file:" \o RemotePath(file_system, n)
                     \o ") = " \o rem.files[n].md5

\* process_md5 of the base class: the text after the " = " of the verbose
\* line; <<>> when the output has no such part
ProcessMd5(text) ==
    LET eq == {i \in 1..Len(text) : OccursAt(text, " = ", i)}
    IN  IF eq = {} THEN <<>>
        ELSE LET i == CHOOSE k \in eq : \A m \in eq : k <= m
             IN  <<SubSeq(text, i + 3, Len(text))>>

\* what the external byte copy leaves on the device
CopyResults == {"intact", "truncated", "corrupt"}
Copied(size, digest, result) ==
    CASE result = "intact" -> [present |-> TRUE, size |-> size, md5 |-> digest]
      [] result = "corrupt" ->
            [present |-> TRUE, size |-> size, md5 |-> OtherDigest]
      [] OTHER -> [present |-> TRUE, size |-> size - 1, md5 |-> OtherDigest]

-----------------------------------------------------------------------------
(* AristaFileTransfer *)

\* the defaults of the constructor
DefaultFileSystem == "/mnt/flash"
DefaultDirection == "put"

\* the directions the base constructor accepts
Directions == {"put", "get"}

\* the job the constructor makes; the size and the digest of the file to be
\* copied are taken by the base constructor
AristaFileTransferInit(source_file, dest_file, file_system, direction, size, digest) ==
    [exists |-> TRUE, source_file |-> source_file, dest_file |-> dest_file,
     file_system |-> file_system, direction |-> direction,
     expectedSize |-> size, localChecksum |-> digest,
     remoteSize |-> <<>>, remoteChecksum |-> <<>>,
     copies |-> 0, state |-> "new", error |-> ""]

\* the unix helpers of the base class, which read the device's reports
UsageCommand(file_system) == "/bin/df -k " \o file_system
ListingCommand(file_system, name) == "/bin/ls -l " \o RemotePath(file_system, name)
RemoteSpaceAvailableUnix(rem, file_system, search_pattern) ==
    DeviceUsageReply(rem, file_system)[4]
CheckFileExistsUnix(rem, file_system, name, remote_cmd) ==
    Len(DeviceListingReply(rem, file_system, name)) > 1
BaseRemoteFile(direction, source_file, dest_file, remote_file) ==
    IF remote_file # <<>> THEN remote_file
    ELSE IF direction = "put" THEN <<dest_file>> ELSE <<source_file>>
RemoteFileSizeUnix(rem, j, remote_cmd, remote_file) ==
    LET name == BaseRemoteFile(j.direction, j.source_file, j.dest_file,
                               remote_file)[1]
        reply == DeviceListingReply(rem, j.file_system, name)
    IN  IF Len(reply) >= 5 THEN <<reply[5]>> ELSE <<>>

\* remote_space_available: the free space the unix helper reads
AristaRemoteSpaceTotal(rem, file_system, search_pattern) ==
    DeviceUsageReply(rem, file_system)[2]
AristaRemoteSpaceAvailable(rem, file_system, search_pattern) ==
    RemoteSpaceAvailableUnix(rem, file_system, search_pattern)

\* check_file_exists: what the unix helper finds
AristaCheckFileExists(rem, file_system, name, remote_cmd) ==
    CheckFileExistsUnix(rem, file_system, name, remote_cmd)

\* the file remote_md5 is about when no remote_file is given: dest_file of a
\* "put", source_file of a "get", still None of any other direction; <<>> is
\* None
AristaRemoteFileSwapped(direction, source_file, dest_file, remote_file) ==
    IF remote_file = <<>>
    THEN IF direction = "put" THEN <<source_file>>
         ELSE IF direction = "get" THEN <<dest_file>>
         ELSE remote_file
    ELSE remote_file
AristaRemoteFile(direction, source_file, dest_file, remote_file) ==
    IF remote_file = <<>>
    THEN IF direction = "put" THEN <<dest_file>>
         ELSE IF direction = "get" THEN <<source_file>>
         ELSE remote_file
    ELSE remote_file

\* a value formatted into an f-string
Format(opt) == IF opt = <<>> THEN "None" ELSE opt[1]

\* remote_file_size: the size the unix helper reads, <<>> when the listing
\* has no size
AristaRemoteFileSize(rem, j, remote_cmd, remote_file) ==
    RemoteFileSizeUnix(rem, j, remote_cmd, remote_file)

\* the command remote_md5 builds and the time it allows for the answer
Md5ReadTimeout == 600
AristaMd5CommandBare(base_cmd, file_system, remote_file) ==
    base_cmd \o " " \o file_system \o "/" \o Format(remote_file)
AristaMd5Command(base_cmd, file_system, remote_file) ==
    base_cmd \o " file:" \o file_system \o "/" \o Format(remote_file)

\* remote_md5: one command sent, the digest taken from its output
AristaRemoteMd5(rem, j, base_cmd, remote_file, ret) ==
    LET file == AristaRemoteFile(j.direction, j.source_file, j.dest_file,
                                 remote_file)
        cmd == AristaMd5Command(base_cmd, j.file_system, file)
        reply == DeviceMd5Reply(rem, j.file_system, cmd)
    IN  [remote_file |-> file, command |-> cmd,
         sent |-> <<NormalizeCmd(cmd, ret)>>,
         read_timeout |-> Md5ReadTimeout, reply |-> reply,
         value |-> ProcessMd5(reply)]

\* enable_scp and disable_scp: nothing written, NotImplementedError raised
AristaEnableScpSends(cmd) ==
    [sent |-> <<Format(cmd)>>, outcome |-> "returned", error |-> ""]
AristaEnableScp(cmd) ==
    [sent |-> <<>>, outcome |-> "raised", error |-> "NotImplementedError"]
AristaDisableScp(cmd) ==
    [sent |-> <<>>, outcome |-> "raised", error |-> "NotImplementedError"]

\* a call on the transfer job: the session's mode and prompt are left alone
JobCall(rec) ==
    /\ job.exists
    /\ call' = rec
    /\ prev' = Summary(call)
    /\ UNCHANGED <<fixed, devMode, shown, unused>>

RemoteSpaceAvailable(search_pattern) ==
    /\ JobCall([NoCall EXCEPT
          !.op = "remote_space_available",
          !.sent = <<NormalizeCmd(UsageCommand(job.file_system), RETURN)>>,
          !.outcome = "returned",
          !.value = <<AristaRemoteSpaceAvailable(remote, job.file_system,
                                                 search_pattern)>>])
    /\ UNCHANGED <<job, remote>>

CheckFileExists(remote_cmd) ==
    /\ job.exists
    /\ job.direction = "put"
    /\ JobCall([NoCall EXCEPT
          !.op = "check_file_exists",
          !.sent = <<NormalizeCmd(ListingCommand(job.file_system,
                                                 job.dest_file), RETURN)>>,
          !.outcome = "returned",
          !.ok = AristaCheckFileExists(remote, job.file_system,
                                       job.dest_file, remote_cmd)])
    /\ UNCHANGED <<job, remote>>

RemoteFileSize(remote_cmd, remote_file) ==
    /\ job.exists
    /\ LET size == AristaRemoteFileSize(remote, job, remote_cmd, remote_file)
           name == BaseRemoteFile(job.direction, job.source_file,
                                  job.dest_file, remote_file)[1]
       IN  JobCall([NoCall EXCEPT
              !.op = "remote_file_size",
              !.remote_file = remote_file,
              !.sent = <<NormalizeCmd(ListingCommand(job.file_system, name),
                                      RETURN)>>,
              !.outcome = IF size = <<>> THEN "raised" ELSE "returned",
              !.error = IF size = <<>> THEN "ParseError" ELSE "",
              !.value = size])
    /\ UNCHANGED <<job, remote>>

RemoteMd5(base_cmd, remote_file) ==
    /\ job.exists
    /\ LET r == AristaRemoteMd5(remote, job, base_cmd, remote_file, RETURN)
       IN  JobCall([NoCall EXCEPT
              !.op = "remote_md5",
              !.command = base_cmd,
              !.remote_file = remote_file,
              !.sent = r.sent,
              !.read_timeout = r.read_timeout,
              !.reply = r.reply,
              !.outcome = IF r.value = <<>> THEN "raised" ELSE "returned",
              !.error = IF r.value = <<>> THEN "ParseError" ELSE "",
              !.value = r.value])
    /\ UNCHANGED <<job, remote>>

EnableScp(cmd) ==
    /\ LET r == AristaEnableScp(cmd)
       IN  JobCall([NoCall EXCEPT
              !.op = "enable_scp", !.sent = r.sent,
              !.outcome = r.outcome, !.error = r.error])
    /\ UNCHANGED <<job, remote>>

DisableScp(cmd) ==
    /\ LET r == AristaDisableScp(cmd)
       IN  JobCall([NoCall EXCEPT
              !.op = "disable_scp", !.sent = r.sent,
              !.outcome = r.outcome, !.error = r.error])
    /\ UNCHANGED <<job, remote>>

-----------------------------------------------------------------------------
(* The transfer decision, as the specification describes it: the checks    *)
(* before the copy, the external byte copy, the checks after it             *)

\* the space check before the copy
EnoughSpace(space, expectedSize) == space >= expectedSize

\* the job is verified when the size and the digest read back are the
\* expected ones
Verified(j, size, digest) ==
    /\ size = <<j.expectedSize>>
    /\ digest = <<j.localChecksum>>

\* the device after the byte copy wrote dest_file
AfterCopy(rem, j, result) ==
    LET new == Copied(j.expectedSize, j.localChecksum, result)
        old == rem.files[j.dest_file]
    IN  [rem EXCEPT !.files[j.dest_file] = new,
                    !.free = (rem.free + old.size) - new.size]

FileTransfer(overwrite, result) ==
    /\ job.exists
    /\ job.direction = "put"
    /\ job.state = "new"
    /\ result = "truncated" => job.expectedSize > 0
    /\ LET space == AristaRemoteSpaceAvailable(remote, job.file_system, "")
           there == AristaCheckFileExists(remote, job.file_system,
                                          job.dest_file, "")
           usage == NormalizeCmd(UsageCommand(job.file_system), RETURN)
           listing == NormalizeCmd(ListingCommand(job.file_system,
                                                  job.dest_file), RETURN)
           rem2 == AfterCopy(remote, job, result)
           size == AristaRemoteFileSize(rem2, job, "", <<>>)
           md5 == AristaRemoteMd5(rem2, job, "verify /md5", <<>>, RETURN)
           rec == [NoCall EXCEPT !.op = "file_transfer"]
       IN  IF ~EnoughSpace(space, job.expectedSize)
           THEN /\ job' = [job EXCEPT !.state = "failed",
                                      !.error = "InsufficientSpaceError"]
                /\ remote' = remote
                /\ JobCall([rec EXCEPT !.sent = <<usage>>,
                               !.outcome = "raised",
                               !.error = "InsufficientSpaceError"])
           ELSE IF ~overwrite /\ there
           THEN /\ job' = [job EXCEPT !.state = "failed",
                                      !.error = "FileExistsError"]
                /\ remote' = remote
                /\ JobCall([rec EXCEPT !.sent = <<usage, listing>>,
                               !.outcome = "raised",
                               !.error = "FileExistsError"])
           ELSE LET good == Verified(job, size, md5.value)
                    sent == (IF overwrite THEN <<usage>>
                             ELSE <<usage, listing>>)
                            \o <<listing>> \o md5.sent
                IN  /\ job' = [job EXCEPT
                          !.copies = @ + 1,
                          !.remoteSize = size,
                          !.remoteChecksum = md5.value,
                          !.state = IF good THEN "verified" ELSE "failed",
                          !.error = IF good THEN ""
                                    ELSE "TransferVerificationError"]
                    /\ remote' = rem2
                    /\ JobCall([rec EXCEPT
                          !.sent = sent,
                          !.read_timeout = md5.read_timeout,
                          !.outcome = IF good THEN "returned" ELSE "raised",
                          !.error = IF good THEN ""
                                    ELSE "TransferVerificationError"])

-----------------------------------------------------------------------------

AristaHosts == {"loc1-core01", "dc1.rack-17_leaf-a"}
CheckStrings == {")#", "(config)#", "(s1)#"}
CheckPatterns == {"[>\\#]", "\\#"}
ConfigCommands == {"configure terminal"}
ConfigPatterns == {"", "\\(config\\)\\#"}
ConfigFlags == {0, IGNORECASE}
EndaceHosts == {"dag01", "probe-7"}
EndaceCommands == {"conf t", "configure terminal"}
SaveCommands == {EndaceSaveArgs.cmd, "write memory"}
SaveConfirms == {[confirm |-> EndaceSaveArgs.confirm,
                  confirm_response |-> EndaceSaveArgs.confirm_response],
                 [confirm |-> TRUE, confirm_response |-> "y"]}
TelnetHosts == {"sw1"}
TelnetKeywords == {NoKeyword, NoneKeyword, Keyword("\n"), Keyword("\r")}
TelnetCheckStrings == {")#"}
TelnetCheckPatterns == {"[>\\#]"}
TelnetConfigPatterns == {""}
TelnetConfigFlags == {0}
TransferHosts == {"loc1-core01"}
SourceFiles == {"EOS-4.28.swi"}
DestFiles == {"EOS-new.swi"}
FileSystems == {DefaultFileSystem}
DirectionArgs == {DefaultDirection, "get", "sideways"}
RemoteFileArgs == {<<>>, <<"EOS-4.28.swi">>, <<"EOS-new.swi">>, <<"startup-config">>}
Md5BaseCmds == {"verify /md5", "verify /sha512"}
ScpCmds == {<<>>, <<"ip scp server enable">>}
Hosts(c) == IF c = "EndaceSSH" THEN EndaceHosts ELSE AristaHosts

\* the session after its preparation: the device shows its plain prompt,
\* no call has been made
InitSession(c) ==
    /\ cls = c
    /\ default_enter = NoKeyword
    /\ RETURN = BaseReturn(default_enter)
    /\ base_prompt \in Hosts(c)
    /\ devMode \in {"User", "Enabled"}
    /\ shown = DevicePrompt(c, base_prompt, devMode)
    /\ unused = IF c \in AristaClasses THEN Markers ELSE {}
    /\ call = NoCall
    /\ prev = Summary(NoCall)
    /\ job = NoJob
    /\ remote = NoRemote

\* a session with a transfer job on it: the device has room for 0..MaxFree
\* bytes and may hold either file of the job from an earlier transfer
InitTransfer ==
    /\ cls = "AristaSSH"
    /\ default_enter = NoKeyword
    /\ RETURN = BaseReturn(default_enter)
    /\ base_prompt \in TransferHosts
    /\ devMode = "Enabled"
    /\ shown = DevicePrompt(cls, base_prompt, devMode)
    /\ unused = Markers
    /\ call = NoCall
    /\ prev = Summary(NoCall)
    /\ \E s \in SourceFiles, d \in DestFiles, f \in FileSystems,
          dir \in DirectionArgs \cap Directions, n \in 0..MaxSize :
          job = AristaFileTransferInit(s, d, f, dir, n, LocalDigest)
    /\ \E free \in 0..MaxFree,
          fs \in [SourceFiles \cup DestFiles -> {Absent, StaleFile}] :
          remote = [free |-> free, files |-> fs]

\* a telnet session after its preparation
InitTelnet ==
    /\ cls = "AristaTelnet"
    /\ default_enter \in TelnetKeywords
    /\ RETURN = AristaTelnetReturn(default_enter)
    /\ base_prompt \in TelnetHosts
    /\ devMode \in {"User", "Enabled"}
    /\ shown = DevicePrompt(cls, base_prompt, devMode)
    /\ unused = Markers
    /\ call = NoCall
    /\ prev = Summary(NoCall)
    /\ job = NoJob
    /\ remote = NoRemote

InitArista == InitSession("AristaSSH")
InitEndace == InitSession("EndaceSSH")
Init == InitArista \/ InitEndace \/ InitTransfer \/ InitTelnet

NextArista ==
    \/ \E m \in Markers, i \in (Len(base_prompt) + 1)..(Len(shown) + 1) :
          Decorate(m, i)
    \/ Undecorate
    \/ \E c \in CheckStrings, p \in CheckPatterns : AristaCheckConfigMode(c, p)
    \/ \E c \in ConfigCommands, p \in ConfigPatterns, f \in ConfigFlags :
          AristaConfigMode(c, p, f)

NextEndace ==
    \/ EndaceCheckConfigMode
    \/ \E c \in EndaceCommands, r \in ConfigReactions, y \in ConfirmReactions :
          EndaceConfigMode(c, r, y)
    \/ EndaceExitConfigMode
    \/ \E e \in EnableReactions, h \in BOOLEAN : EndaceEnable(e, h)
    \/ \E c \in SaveCommands, k \in SaveConfirms, e \in EnableReactions,
          h \in BOOLEAN, r \in ConfigReactions, y \in ConfirmReactions :
          EndaceSaveConfig(c, k.confirm, k.confirm_response, e, h, r, y)

NextTransfer ==
    \/ RemoteSpaceAvailable("")
    \/ CheckFileExists("")
    \/ \E f \in RemoteFileArgs : RemoteFileSize("", f)
    \/ \E b \in Md5BaseCmds, f \in RemoteFileArgs : RemoteMd5(b, f)
    \/ \E c \in ScpCmds : EnableScp(c)
    \/ \E c \in ScpCmds : DisableScp(c)
    \/ \E o \in BOOLEAN, r \in CopyResults : FileTransfer(o, r)

NextTelnet ==
    \/ \E m \in Markers, i \in (Len(base_prompt) + 1)..(Len(shown) + 1) :
          Decorate(m, i)
    \/ Undecorate
    \/ \E c \in TelnetCheckStrings, p \in TelnetCheckPatterns :
          AristaCheckConfigMode(c, p)
    \/ \E c \in ConfigCommands, p \in TelnetConfigPatterns,
          f \in TelnetConfigFlags : AristaConfigMode(c, p, f)

Next == NextArista \/ NextEndace \/ NextTransfer \/ NextTelnet

\* a session of either driver
Spec == Init /\ [][Next]_vars
\* an Arista session
SpecArista == InitArista /\ [][NextArista]_vars
\* an Endace session
SpecEndace == InitEndace /\ [][NextEndace]_vars
\* an Arista telnet session
SpecTelnet == InitTelnet /\ [][NextTelnet]_vars
\* an Arista session with a transfer job
SpecTransfer == InitTransfer /\ [][NextTransfer]_vars

-----------------------------------------------------------------------------
(* Claims about AristaBase.check_config_mode *)

AristaChecked == cls = "AristaSSH" /\ call.op = "check_config_mode"
AristaCheckReturned == AristaChecked /\ call.outcome = "returned"

\* C1: every call of check_config_mode, whatever was called before it and
\* whatever the prompt looked like then, writes exactly one RETURN, reads up
\* to the first match of the pattern, and returns TRUE exactly when
\* check_string occurs in the text read with the "(s1)" and then the "(s2)"
\* occurrences removed.
C1_CheckRule ==
    AristaChecked =>
        /\ call.sent = <<RETURN>>
        /\ call.outcome \in {"returned", "raised"}
        /\ call.outcome = "returned" =>
              /\ Len(call.read) > 0
              /\ MatchEnd(call.read, call.pattern) = Len(call.read)
              /\ call.ok = Contains(Replace(Replace(call.read, "(s1)"), "(s2)"),
                                    call.check_string)

\* a second check in a row, made after a marker had appeared and the prompt
\* was redrawn without it: the plain configuration prompt was read and the
\* answer is TRUE
C1_Witness ==
    /\ AristaCheckReturned
    /\ prev.op = "check_config_mode"
    /\ unused # Markers
    /\ call.read = PromptEcho(AristaPrompt(base_prompt, "Config"))
    /\ call.ok

\* C2: for a prompt with markers inserted, check_config_mode returns what it
\* returns for the same prompt without the markers.
C2_DecoratedAsUndecorated ==
    AristaCheckReturned =>
        call.ok = AristaCheckResult(
                      ReadUntilPattern(
                          PromptEcho(AristaPrompt(base_prompt, call.preMode)),
                          call.pattern),
                      call.check_string)

\* C3: removing the markers twice gives what removing them once gives.
C3_StripIdempotent ==
    AristaCheckReturned =>
        AristaStrip(AristaStrip(call.read)) = AristaStrip(call.read)

\* C4: removing "(s1)" then "(s2)" gives what removing "(s2)" then "(s1)"
\* gives.
C4_StripOrderIndependent ==
    AristaCheckReturned =>
        AristaStrip(call.read) = Replace(Replace(call.read, "(s2)"), "(s1)")

\* C5: with the default check string ")#", a prompt that carries one marker
\* directly before its terminator is not reported as configuration mode and
\* is read as the plain prompt, and a configuration prompt that carries one
\* marker is reported as configuration mode.
C5_MarkedPrompt ==
    (AristaCheckReturned /\ call.check_string = ")#") =>
        \A m \in Markers :
            /\ \A t \in {"#", ">"} :
                  call.read = PromptEcho(base_prompt \o m \o t) =>
                      /\ ~call.ok
                      /\ AristaStrip(call.read) = PromptEcho(base_prompt \o t)
            /\ call.read = PromptEcho(base_prompt \o m \o "(config)#") => call.ok

\* the prompt of the driver's own comment, loc1-core01(s1)#, was read and
\* the answer was FALSE
C5_Witness ==
    /\ AristaCheckReturned
    /\ call.check_string = ")#"
    /\ call.read = "\nloc1-core01(s1)#"
    /\ AristaStrip(call.read) = "\nloc1-core01#"
    /\ ~call.ok

TelnetChecked == cls = "AristaTelnet" /\ call.op = "check_config_mode"

\* C17: check_config_mode of a telnet session writes the session's line
\* terminator and nothing else; the terminator is "\r\n" when the session
\* was made without default_enter or with default_enter=None, and the
\* caller's default_enter otherwise.
C17_TelnetTerminator ==
    /\ cls = "AristaTelnet" =>
          RETURN = IF ~default_enter.given \/ default_enter.none THEN "\r\n"
                   ELSE default_enter.value
    /\ TelnetChecked => call.sent = <<RETURN>>

\* the mode was checked on a session made with default_enter=None
C17_Witness ==
    /\ TelnetChecked
    /\ default_enter = NoneKeyword
    /\ call.sent = <<"\r\n">>
    /\ call.outcome = "returned"

-----------------------------------------------------------------------------
(* Claims about AristaBase.config_mode *)

\* C10: with an empty pattern config_mode waits for the escaped first 16
\* characters of base_prompt, then ".*", then the escaped ")#"; a pattern the
\* caller gives is passed on as it is; with no flags the wait uses DOTALL,
\* and flags the caller gives are passed on as they are.
C10_ConfigWait ==
    (cls = "AristaSSH" /\ call.op = "config_mode") =>
        LET head == SubSeq(base_prompt, 1, Min(16, Len(base_prompt)))
            wp == call.waitPattern
        IN  /\ call.pattern = "" =>
                  /\ wp = ReEscape(head) \o ".*" \o "\\)\\#"
                  /\ Unescape(SubSeq(wp, 1, Len(wp) - 6), 1) = head
            /\ call.pattern # "" => wp = call.pattern
            /\ call.re_flags = 0 => call.waitFlags = 16
            /\ call.re_flags # 0 => call.waitFlags = call.re_flags

\* config_mode was called with no pattern and no flags on a session whose
\* base_prompt is longer than 16 characters, and returned
C10_Witness ==
    /\ cls = "AristaSSH"
    /\ call.op = "config_mode"
    /\ call.pattern = ""
    /\ call.re_flags = 0
    /\ Len(base_prompt) > 16
    /\ call.outcome = "returned"

-----------------------------------------------------------------------------
(* Claims about EndaceSSH *)

EndaceConfigCalled == cls = "EndaceSSH" /\ call.op = "config_mode"

\* how often line x was written in the call
Times(x) == Cardinality({i \in 1..Len(call.sent) : call.sent[i] = x})

\* C6: called outside configuration mode, config_mode writes the check's
\* line terminator, then the command once, then "YES" exactly when the text
\* that came back for the command contains "to enter configuration mode
\* anyway", then the second check's line terminator, and nothing else.
C6_ConfirmOnce ==
    (EndaceConfigCalled /\ call.preMode # "Config") =>
        LET cmd == call.command \o RETURN
            yes == "YES" \o RETURN
            warned == Contains(call.reply, "to enter configuration mode anyway")
        IN  /\ Times(cmd) = 1
            /\ Times(yes) <= 1
            /\ Times(yes) = 1 <=> warned
            /\ call.sent = IF warned THEN <<RETURN, cmd, yes, RETURN>>
                           ELSE <<RETURN, cmd, RETURN>>

\* the device asked for the confirmation, got it once and let the session in
C6_Witness ==
    /\ EndaceConfigCalled
    /\ call.preMode = "Enabled"
    /\ Times("YES" \o RETURN) = 1
    /\ call.outcome = "returned"
    /\ devMode = "Config"

\* C7: the error config_mode raises carries the output collected from the
\* command and the confirmation.
C7_ErrorCarriesOutput ==
    (EndaceConfigCalled /\ call.outcome = "raised") =>
        Contains(call.error, call.read)

\* C8: called in configuration mode, config_mode writes only the check's
\* line terminator, returns the empty string and leaves the device in
\* configuration mode.
C8_EnterIdempotent ==
    (EndaceConfigCalled /\ call.preMode = "Config") =>
        /\ call.outcome = "returned"
        /\ call.output = ""
        /\ call.sent = <<RETURN>>
        /\ \A i \in 1..Len(call.sent) :
              call.sent[i] \notin {call.command \o RETURN, "YES" \o RETURN}
        /\ devMode = "Config"

\* config_mode was called a second time, directly after one that succeeded
C8_Witness ==
    /\ EndaceConfigCalled
    /\ call.preMode = "Config"
    /\ prev = [op |-> "config_mode", outcome |-> "returned"]
    /\ call.outcome = "returned"

\* C9: exit_config_mode called directly after a successful config_mode
\* returns, having waited for "#" and read up to the "#" of the prompt
\* without "(config)", and leaves the device in privileged mode, where
\* check_config_mode answers FALSE.
C9_RoundTrip ==
    (/\ cls = "EndaceSSH"
     /\ call.op = "exit_config_mode"
     /\ prev = [op |-> "config_mode", outcome |-> "returned"]) =>
        /\ call.outcome = "returned"
        /\ call.waitPattern = "#"
        /\ devMode = "Enabled"
        /\ ~EndaceInConfigMode(base_prompt, devMode)
        /\ ~Contains(call.read, "(config) #")
        /\ OccursAt(call.read, base_prompt \o " #", Len(call.read) - Len(base_prompt) - 1)

\* the round trip was made from privileged mode
C9_Witness ==
    /\ cls = "EndaceSSH"
    /\ call.op = "exit_config_mode"
    /\ prev = [op |-> "config_mode", outcome |-> "returned"]
    /\ call.outcome = "returned"
    /\ call.sent = <<"exit\n">>
    /\ devMode = "Enabled"

\* C15: config_mode returns only when the last thing it did on the channel
\* was a check_config_mode that answered TRUE, the device then being in
\* configuration mode; when its last check answers FALSE it raises, with
\* and without the confirmation sent.
C15_ReturnsOnlyChecked ==
    EndaceConfigCalled =>
        /\ call.outcome \in {"returned", "raised"}
        /\ call.steps # <<>>
        /\ \A i \in 1..Len(call.steps) : call.steps[i].op = "check_config_mode"
        /\ call.sent[Len(call.sent)] = RETURN
        /\ call.ok = call.steps[Len(call.steps)].ok
        /\ call.ok = EndaceInConfigMode(base_prompt, devMode)
        /\ call.outcome = "returned" <=> call.ok
        /\ call.outcome = "raised" =>
              /\ call.error = EndaceConfigError
              /\ Len(call.steps) = 2

\* the device asked for the confirmation, got it and still refused: the
\* second check answered FALSE and the call raised
C15_Witness ==
    /\ EndaceConfigCalled
    /\ Times("YES" \o RETURN) = 1
    /\ call.steps = <<Step("check_config_mode", FALSE),
                      Step("check_config_mode", FALSE)>>
    /\ call.outcome = "raised"

EndaceSaveCalled == cls = "EndaceSSH" /\ call.op = "save_config"

\* where in the call line x was written
Places(x) == {i \in 1..Len(call.sent) : call.sent[i] = x}

\* C16: save_config calls enable first and config_mode only after enable
\* returned; it writes the save command at most once, exactly when both
\* returned, after the "enable" line and directly after the line terminator
\* of config_mode's last check; when enable or config_mode raises, the save
\* command is not written and save_config raises.
C16_SaveAfterEnableAndConfig ==
    EndaceSaveCalled =>
        LET save == call.command \o RETURN
            both == /\ Len(call.steps) >= 2
                    /\ call.steps[1] = Step("enable", TRUE)
                    /\ call.steps[2] = Step("config_mode", TRUE)
        IN  /\ call.steps[1].op = "enable"
            /\ Len(call.steps) >= 2 =>
                  /\ call.steps[1].ok
                  /\ call.steps[2].op = "config_mode"
            /\ Len(call.steps) >= 3 =>
                  /\ call.steps[2].ok
                  /\ call.steps[3].op = "save_config"
            /\ Cardinality(Places(save)) <= 1
            /\ Places(save) # {} <=> both
            /\ \A i \in Places(save) :
                  /\ i > 2
                  /\ call.sent[1] = "enable" \o RETURN
                  /\ call.sent[i - 1] = RETURN
                  /\ Len(call.sent) = i + (IF call.confirm THEN 1 ELSE 0)
            /\ both => (call.outcome = "returned" /\ devMode = "Config")
            /\ ~both => call.outcome = "raised"

\* from user mode: the secret was asked for and given, the configuration
\* lock was confirmed, and the save command went out last
C16_Witness ==
    /\ EndaceSaveCalled
    /\ call.preMode = "User"
    /\ call.sent = <<"enable\n", "s3cret\n", "\n", "conf t\n", "YES\n", "\n",
                     "configuration write\n">>
    /\ call.outcome = "returned"

-----------------------------------------------------------------------------
(* Claims about AristaFileTransfer *)

Transferred == job.exists /\ job.copies > 0

\* C11: a job is verified only when the size read back from the device is
\* the expected size and the digest read back is the local digest, both
\* being those of the file the copy wrote; a copy whose size is the
\* expected one and whose digest differs from the local one ends in a
\* TransferVerificationError.
C11_VerifiedOnlyBoth ==
    job.exists =>
        /\ Transferred =>
              /\ job.remoteSize = <<remote.files[job.dest_file].size>>
              /\ job.remoteChecksum = <<remote.files[job.dest_file].md5>>
        /\ job.state = "verified" =>
              /\ Transferred
              /\ job.remoteSize = <<job.expectedSize>>
              /\ job.remoteChecksum = <<job.localChecksum>>
        /\ ( /\ Transferred
             /\ job.remoteSize = <<job.expectedSize>>
             /\ job.remoteChecksum # <<job.localChecksum>> ) =>
              /\ job.state = "failed"
              /\ job.error = "TransferVerificationError"

\* a copy of the expected size and another digest was refused
C11_Witness ==
    /\ Transferred
    /\ call.op = "file_transfer"
    /\ remote.files[job.dest_file].size = job.expectedSize
    /\ remote.files[job.dest_file].md5 # job.localChecksum
    /\ call.outcome = "raised"
    /\ call.error = "TransferVerificationError"

\* C12: a transfer of a file one byte larger than the free space of the
\* device fails with InsufficientSpaceError, the step that decides it copies
\* nothing and leaves the device as it was, and a job that failed so never
\* has a copy made.
C12_NoCopyWithoutSpace ==
    [][ /\ ( /\ job.exists
             /\ job.state = "new"
             /\ job'.state # "new"
             /\ job.expectedSize = remote.free + 1 ) =>
              /\ job'.state = "failed"
              /\ job'.error = "InsufficientSpaceError"
              /\ call'.outcome = "raised"
              /\ call'.error = "InsufficientSpaceError"
              /\ job'.copies = 0
              /\ remote' = remote
        /\ ( /\ job.exists
             /\ job.error = "InsufficientSpaceError" ) =>
              /\ job'.copies = 0
              /\ remote' = remote ]_vars

\* a transfer of free space + 1 bytes was refused before the copy
C12_Witness ==
    /\ job.exists
    /\ call.op = "file_transfer"
    /\ job.expectedSize = remote.free + 1
    /\ job.error = "InsufficientSpaceError"
    /\ job.copies = 0

ScpOps == {"enable_scp", "disable_scp"}

\* C13: every call of enable_scp or disable_scp, whatever its argument and
\* whatever the state of the job, raises NotImplementedError, writes nothing
\* to the channel and leaves the job and the device as they were.
C13_ScpNotImplemented ==
    [][ call'.op \in ScpOps =>
            /\ call'.outcome = "raised"
            /\ call'.error = "NotImplementedError"
            /\ call'.sent = <<>>
            /\ job' = job
            /\ remote' = remote
            /\ UNCHANGED <<devMode, shown>> ]_vars

\* enable_scp was called on a verified job, after disable_scp
C13_Witness ==
    /\ job.exists
    /\ job.state = "verified"
    /\ call.op = "enable_scp"
    /\ prev.op = "disable_scp"
    /\ call.outcome = "raised"

\* the file remote_md5 has to address
Md5File ==
    IF call.remote_file # <<>> THEN call.remote_file[1]
    ELSE IF job.direction = "put" THEN job.dest_file ELSE job.source_file

\* C14: remote_md5 sends exactly one command,
\* "<base_cmd> file:<file_system>/<remote_file>", with a read timeout of 600
\* seconds; the file is the remote_file given, and without one it is
\* dest_file of a "put" job and source_file of a "get" job, so a file of the
\* job for every direction a job can have.
C14_Md5Command ==
    (job.exists /\ call.op = "remote_md5") =>
        /\ Len(call.sent) = 1
        /\ call.sent[1] = call.command \o " file:" \o job.file_system \o "/"
                              \o Md5File \o RETURN
        /\ call.read_timeout = 600
        /\ call.remote_file = <<>> =>
              Md5File \in {job.source_file, job.dest_file}

\* remote_md5 was called without a remote_file on a "get" job
C14_Witness ==
    /\ job.exists
    /\ job.direction = "get"
    /\ call.op = "remote_md5"
    /\ call.remote_file = <<>>
    /\ call.sent = <<"verify /md5 file:/mnt/flash/EOS-4.28.swi\n">>

====
